---- MODULE Spec2Model ----
(***************************************************************************)
(* Model of naomi/plugin.py, class VADPlugin: the constructor that turns   *)
(* seconds into frame counts and get_audio, the loop that segments the     *)
(* frame stream of the input device into one utterance.                    *)
(*                                                                         *)
(* A frame is identified by its 0-based index in the stream of this call.  *)
(* stream[k + 1] is the verdict _voice_detected gives for frame k at the   *)
(* single call made for it (with the recording flag held at that time).    *)
(***************************************************************************)
EXTENDS Integers, Sequences, FiniteSets, TLC

VARIABLES
    timeout,            \* self._timeout
    minimum_capture,    \* self._minimum_capture
    stream,             \* verdicts of the frames input_device.record() yields
    pos,                \* number of frames pulled from the source so far
    frames,             \* collections.deque([], 30)
    last_voice_frame,
    recording,
    recording_frames,
    pc,                 \* "loop": inside the for loop, "done": get_audio returned
    result,             \* value returned by get_audio
    log,                \* calls made on self._logger, in order
    onset_index,        \* history: index of the frame that last started a recording, -1 if none
    config,             \* history: the arguments __init__ was given, with the device timing
    calls               \* history: the calls made on self._voice_detected, in order

vars == <<timeout, minimum_capture, stream, pos, frames, last_voice_frame,
          recording, recording_frames, pc, result, log, onset_index, config, calls>>

(* ---------------------------- bounds ----------------------------------- *)
MaxStream == 8          \* longest stream of the exhaustive specification
MaxTimeoutFrames == 2   \* largest timeout, in chunks, of the exhaustive specification
MaxExtraFrames == 3     \* largest minimum_capture, in chunks, of the exhaustive specification
MaxTimeoutSteps == 4    \* largest timeout, in steps of 10 ms, of the configuration specification
MaxCaptureSteps == 4    \* largest minimum_capture, in steps of 10 ms, of the configuration specification
MaxShortStream == 2     \* longest stream of the configuration specification

(* ---------------------------- helpers ---------------------------------- *)
Min(a, b) == IF a < b THEN a ELSE b
Max(a, b) == IF a > b THEN a ELSE b
Range(s) == {s[k] : k \in 1..Len(s)}

RECURSIVE BoolSeqs(_)
BoolSeqs(n) ==
    IF n = 0 THEN {<<>>}
    ELSE {Append(s, b) : s \in BoolSeqs(n - 1), b \in BOOLEAN}

\* a silent frames, then b voiced frames, then c silent frames
Runs(a, b, c) == [k \in 1..(a + b + c) |-> k > a /\ k <= a + b]

(* ------------------------ return value of get_audio -------------------- *)
None == [none |-> TRUE, frames |-> <<>>]
Some(s) == [none |-> FALSE, frames |-> s]

(* ---------------------------- constructor ------------------------------ *)
\* Python 3 round() of the rational num / den (den > 0): nearest integer,
\* ties to the even one.
Round(num, den) ==
    LET q == num \div den
        r == num % den
    IN  IF 2 * r < den THEN q
        ELSE IF 2 * r > den THEN q + 1
        ELSE IF q % 2 = 0 THEN q ELSE q + 1

\* timeout and minimum_capture are given in milliseconds; chunklength is
\* chunksize / rate seconds.
TimeoutFrames(cfg) ==
    Round(cfg.timeout_ms * cfg.rate, 1000 * cfg.chunksize)

\* bug variant: the timeout is not added to the minimum capture
MinimumCaptureFrames_NoPadding(cfg) ==
    Round(cfg.minimum_capture_ms * cfg.rate, 1000 * cfg.chunksize)

MinimumCaptureFrames(cfg) ==
    Round((cfg.timeout_ms + cfg.minimum_capture_ms) * cfg.rate, 1000 * cfg.chunksize)

(* ---------------------------- get_audio -------------------------------- *)
DequeMaxLen == 30

\* deque.append on a deque with maxlen: the oldest element is dropped when full
DequeAppend(d, x) ==
    IF Len(d) >= DequeMaxLen THEN Append(Tail(d), x) ELSE Append(d, x)

\* Python s[start:]
PySliceFrom(s, start) ==
    LET n == Len(s)
        st == IF start < 0 THEN Max(n + start, 0) ELSE Min(start, n)
    IN  SubSeq(s, st + 1, n)

\* list(frames)[-self._timeout:]
Snapshot(d, t) == PySliceFrom(d, 0 - t)

\* bug variant: the keyword argument is left out, the classifier sees its default
ClassifierFlag_Default(rec) == FALSE

\* self._voice_detected(frame, recording=recording): the flag passed
ClassifierFlag(rec) == rec

\* one call of self._voice_detected: the frame, the flag, and whether the frame
\* was already in the deque when the call was made
ClassifierCall(frame, rec, d) ==
    [frame |-> frame, recording |-> ClassifierFlag(rec), buffered |-> frame \in Range(d)]

\* bug variant: the verdict of the classifier is not consulted
Onset_IgnoresVerdict(rec, voice) == ~rec

\* if not recording: if(voice_detected):
Onset(rec, voice) == (~rec) /\ voice

\* bug variant: a capture is also ended once it is longer than the minimum
SpeechEnded_Capped(lvf, n, t) == lvf < n - t \/ n > minimum_capture

\* bug variant: non-strict comparison
SpeechEnded_NonStrict(lvf, n, t) == lvf <= n - t

\* if(last_voice_frame < len(recording_frames) - self._timeout):
SpeechEnded(lvf, n, t) == lvf < n - t

\* bug variant: a capture of exactly the minimum length is discarded
TooShort_Inclusive(n, mc) == n <= mc

\* bug variant: the padding is taken off the threshold
TooShort_MinusPadding(n, mc) == n < mc - timeout

\* bug variant: the length is not checked
TooShort_Never(n, mc) == FALSE

\* if(len(recording_frames) < self._minimum_capture):
TooShort(n, mc) == n < mc

\* bug variant: the frames recorded so far are returned at the end of the stream
ExhaustedResult_Partial(rec, rf) == IF rec THEN Some(rf) ELSE None

\* the for loop ends without a return statement having run
ExhaustedResult(rec, rf) == None

LogEntry(ev, n) == [ev |-> ev, n |-> n]

\* One iteration of the for loop: lines 188-229.
ProcessFrame ==
    /\ pc = "loop"
    /\ pos < Len(stream)
    /\ LET frame == pos
           voice_detected == stream[pos + 1]
           fr == DequeAppend(frames, frame)
       IN
       /\ pos' = pos + 1
       /\ frames' = fr
       /\ calls' = Append(calls, ClassifierCall(frame, recording, fr))
       /\ IF ~recording
          THEN IF Onset(recording, voice_detected)
               THEN /\ recording' = TRUE
                    /\ recording_frames' = Snapshot(fr, timeout)
                    /\ last_voice_frame' = Len(Snapshot(fr, timeout))
                    /\ log' = Append(log, LogEntry("started", 0))
                    /\ onset_index' = frame
                    /\ UNCHANGED <<pc, result>>
               ELSE UNCHANGED <<recording, recording_frames, last_voice_frame,
                                log, onset_index, pc, result>>
          ELSE LET rf == Append(recording_frames, frame)
                   lvf == IF voice_detected THEN Len(rf) ELSE last_voice_frame
               IN
               /\ recording_frames' = rf
               /\ last_voice_frame' = lvf
               /\ UNCHANGED onset_index
               /\ IF SpeechEnded(lvf, Len(rf), timeout)
                  THEN /\ recording' = FALSE
                       /\ IF TooShort(Len(rf), minimum_capture)
                          THEN /\ log' = Append(log, LogEntry("discard", Len(rf)))
                               /\ UNCHANGED <<pc, result>>
                          ELSE /\ log' = Append(log, LogEntry("recorded", Len(rf)))
                               /\ pc' = "done"
                               /\ result' = Some(rf)
                  ELSE UNCHANGED <<recording, log, pc, result>>
    /\ UNCHANGED <<timeout, minimum_capture, stream, config>>

\* The generator of input_device.record() is exhausted: the for loop ends
\* and get_audio falls off its end.
StreamExhausted ==
    /\ pc = "loop"
    /\ pos = Len(stream)
    /\ pc' = "done"
    /\ result' = ExhaustedResult(recording, recording_frames)
    /\ UNCHANGED <<timeout, minimum_capture, stream, pos, frames, last_voice_frame,
                   recording, recording_frames, log, onset_index, config, calls>>

Next == ProcessFrame \/ StreamExhausted

\* State after __init__ and lines 177-181 of get_audio.
InitWith(cfg, s) ==
    /\ timeout = TimeoutFrames(cfg)
    /\ minimum_capture = MinimumCaptureFrames(cfg)
    /\ stream = s
    /\ pos = 0
    /\ frames = <<>>
    /\ last_voice_frame = 0
    /\ recording = FALSE
    /\ recording_frames = <<>>
    /\ pc = "loop"
    /\ result = None
    /\ log = <<LogEntry("waiting", 0)>>
    /\ onset_index = -1
    /\ config = cfg
    /\ calls = <<>>

\* Exhaustive specification: a device with 20 ms chunks, every timeout from
\* -1 to MaxTimeoutFrames chunks, every stream of at most MaxStream frames.
Device == [chunksize |-> 320, rate |-> 16000]

Configs ==
    {[chunksize |-> Device.chunksize, rate |-> Device.rate,
      timeout_ms |-> 20 * t, minimum_capture_ms |-> 20 * m] :
        t \in (-1)..MaxTimeoutFrames, m \in 0..MaxExtraFrames}

Streams == UNION {BoolSeqs(n) : n \in 0..MaxStream}

Init == \E cfg \in Configs, s \in Streams : InitWith(cfg, s)

Spec == Init /\ [][Next]_vars

FairSpec == Spec /\ WF_vars(Next)

\* Scenario specification: the default arguments timeout=1, minimum_capture=0.5
\* on the same device, on streams made of one long voiced run.
DefaultConfig ==
    [chunksize |-> Device.chunksize, rate |-> Device.rate,
     timeout_ms |-> 1000, minimum_capture_ms |-> 500]

Scenario5 == Runs(10, 5, 51)
Scenario30 == Runs(10, 30, 51)
ScenarioLate == Runs(40, 30, 51)

ScenarioStreams == {Scenario5, Scenario30, ScenarioLate}

InitScenario == \E s \in ScenarioStreams : InitWith(DefaultConfig, s)

SpecScenario == InitScenario /\ [][Next]_vars

\* Configuration specification: two devices (20 ms and 64 ms chunks), timeouts
\* and minimum captures in steps of 10 ms from below zero upwards, and the
\* default arguments; short streams.  On these arguments the floating-point
\* quotients of __init__ round to the same integers as the exact quotients
\* that Round is given.
Devices == {Device, [chunksize |-> 1024, rate |-> 16000]}

WideConfigs ==
    {[chunksize |-> d.chunksize, rate |-> d.rate,
      timeout_ms |-> t, minimum_capture_ms |-> m] :
        d \in Devices,
        t \in {10 * k : k \in (-2)..MaxTimeoutSteps} \cup {DefaultConfig.timeout_ms},
        m \in {10 * k : k \in (-1)..MaxCaptureSteps} \cup {DefaultConfig.minimum_capture_ms}}

ShortStreams == UNION {BoolSeqs(n) : n \in 0..MaxShortStream}

InitConfig == \E cfg \in WideConfigs, s \in ShortStreams : InitWith(cfg, s)

SpecConfig == InitConfig /\ [][Next]_vars

(* ------------------------ derived quantities --------------------------- *)
\* index of the last frame judged voiced among those pulled so far, -1 if none
LastVoiced ==
    LET V == {k \in 0..(pos - 1) : stream[k + 1]}
    IN  IF V = {} THEN -1 ELSE CHOOSE k \in V : \A m \in V : m <= k

\* consecutive non-voice frames pulled since the last voiced one
SilentRun == pos - 1 - LastVoiced

\* frames of the capture that precede the frame which started it
PreRoll == {k \in Range(recording_frames) : k < onset_index}

HasDiscard(l) == \E k \in 1..Len(l) : l[k].ev = "discard"

\* the frames lo, lo + 1, ..., hi in stream order
Span(lo, hi) == [k \in 1..(hi - lo + 1) |-> lo + k - 1]

CaptureEnds == recording /\ ~recording'

(* ------------------------------ C1 -------------------------------------- *)
\* C1: when a capture that started at frame i ends (more than Timeout
\* non-voice frames after the last voiced frame j - 1), then, if its length
\* is at least MinimumCapture, it is returned and holds every frame of
\* [max(0, i - Timeout), j + Timeout]; otherwise nothing is returned and the
\* loop goes on.  Stated for Timeout >= 1; j + Timeout is the frame pulled
\* at the step that ends the capture.
C1_UtteranceSpan ==
    [][ (timeout >= 1 /\ CaptureEnds) =>
          IF Len(recording_frames') >= minimum_capture
          THEN /\ pc' = "done"
               /\ ~result'.none
               /\ \A k \in Max(0, onset_index - timeout)..pos :
                      k \in Range(result'.frames)
          ELSE pc' = "loop" /\ result' = None ]_vars

(* ------------------------------ C2 -------------------------------------- *)
\* C2: as long as the classifier has returned false on every frame pulled,
\* get_audio is Idle and has returned no utterance, and it has ended only
\* if the source is exhausted.
C2_SilenceNeverReturns ==
    (\A k \in 1..pos : ~stream[k]) =>
        /\ ~recording
        /\ result = None
        /\ (pc = "done" => pos = Len(stream))

C2_Witness ==
    /\ pc = "done"
    /\ pos = Len(stream)
    /\ pos >= 3
    /\ \A k \in 1..pos : ~stream[k]

(* ------------------------------ C3 -------------------------------------- *)
\* C3: a frame processed while Recording ends the capture iff it makes the
\* run of non-voice frames since the last voiced frame longer than Timeout,
\* which is iff len(frames) - last_voice_index > Timeout: with exactly
\* Timeout such frames the state is still Recording, the next one ends it.
C3_StrictTimeout ==
    [][ (recording /\ pos' = pos + 1) =>
          /\ (~recording') <=> (SilentRun' > timeout)
          /\ (~recording') <=> (Len(recording_frames') - last_voice_frame' > timeout)
          /\ (SilentRun' = timeout => recording') ]_vars

C3_Witness ==
    /\ timeout >= 1
    /\ onset_index >= 0
    /\ ~recording
    /\ SilentRun = timeout + 1
    /\ Len(recording_frames) - last_voice_frame = timeout + 1

(* ------------------------------ C4 -------------------------------------- *)
\* C4: a capture that ends by timeout is returned iff its length is at
\* least MinimumCapture; a shorter one is discarded and nothing is returned
\* for it.
C4_MinimumCapture ==
    [][ CaptureEnds =>
          /\ (Len(recording_frames') >= minimum_capture) <=>
                 (pc' = "done" /\ result' = Some(recording_frames'))
          /\ (Len(recording_frames') < minimum_capture) <=>
                 (pc' = "loop" /\ result' = None
                    /\ log' = Append(log, LogEntry("discard", Len(recording_frames')))) ]_vars

\* one call that discarded a capture of MinimumCapture - 1 frames and then
\* returned one of exactly MinimumCapture frames
C4_Witness ==
    /\ pc = "done"
    /\ ~result.none
    /\ Len(result.frames) = minimum_capture
    /\ \E k \in 1..Len(log) : log[k] = LogEntry("discard", minimum_capture - 1)

(* ------------------------------ C5 -------------------------------------- *)
\* C5: at every Idle-to-Recording transition the capture is seeded with
\* min(Timeout, frames pulled so far) frames, and these are the most recent
\* frames of the stream, oldest first.
C5_PreRollSeed ==
    [][ ((~recording) /\ recording') =>
          /\ Len(recording_frames') = Min(timeout, pos')
          /\ recording_frames' = Span(pos' - Len(recording_frames'), pos' - 1) ]_vars

(* ------------------------------ C6 -------------------------------------- *)
\* C6: for every Timeout the constructor produces, the frames of a capture
\* that precede its onset frame are never more than Timeout, and there are
\* none when the onset frame is the first frame of the stream.  Stated for
\* the values Timeout >= 0 only (a negative Timeout cannot bound a count).
C6_PreRollBound ==
    (timeout >= 0 /\ onset_index >= 0 /\ recording) =>
        /\ Cardinality(PreRoll) <= timeout
        /\ (onset_index = 0 => PreRoll = {})

(* ------------------------------ C7 -------------------------------------- *)
\* C7 as stated: Timeout = 50, MinimumCapture = 75, 10 non-voice frames, 30
\* voiced, 51 non-voice: an utterance of exactly 90 frames is returned.
C7_Original ==
    (stream = Scenario30 /\ pc = "done") =>
        /\ timeout = 50 /\ minimum_capture = 75
        /\ ~result.none
        /\ Len(result.frames) = 90

\* C7 amended: the utterance returned has exactly 91 frames, the frames
\* 0..90 of the stream (10 pre-roll, 30 voiced, 51 trailing non-voice).
C7_Utterance91 ==
    (stream = Scenario30 /\ pc = "done") =>
        /\ timeout = 50 /\ minimum_capture = 75
        /\ ~result.none
        /\ Len(result.frames) = 91
        /\ result.frames = Span(0, 90)

C7_Witness ==
    /\ stream = Scenario30
    /\ pc = "done"
    /\ ~result.none
    /\ log[Len(log)].ev = "recorded"

(* ------------------------------ C8 -------------------------------------- *)
\* what C8 says of the scenario apart from the length of the capture:
\* recording starts at the 11th frame with the 10 frames before it, and
\* the call ends with no utterance after one capture was discarded
C8_Common ==
    /\ timeout = 50 /\ minimum_capture = 75
    /\ (onset_index >= 0 =>
            /\ onset_index = 10
            /\ SubSeq(recording_frames, 1, 11) = Span(0, 10))
    /\ (pc = "done" =>
            /\ result = None
            /\ Len(log) = 3
            /\ log[2].ev = "started"
            /\ log[3].ev = "discard")

\* C8 as stated: 10 non-voice frames, 5 voiced, 51 non-voice: the capture
\* ends after the 50th trailing non-voice frame with length 65 and is
\* discarded.
C8_Original ==
    stream = Scenario5 =>
        /\ C8_Common
        /\ \A k \in 1..Len(log) : log[k].ev = "discard" => log[k].n = 65
        /\ (~recording /\ onset_index >= 0) => SilentRun = 50

\* C8 amended: the capture ends on the 51st trailing non-voice frame with
\* length 66; 66 < 75, so it is discarded and no utterance is returned.
C8_Discard66 ==
    stream = Scenario5 =>
        /\ C8_Common
        /\ \A k \in 1..Len(log) : log[k].ev = "discard" => log[k].n = 66
        /\ (~recording /\ onset_index >= 0) => SilentRun = 51

C8_Witness ==
    /\ stream = Scenario5
    /\ pc = "done"
    /\ HasDiscard(log)
    /\ pos = 66

(* ------------------------------ C9 -------------------------------------- *)
\* C9: discarding a capture shorter than MinimumCapture leaves get_audio
\* in its loop, Idle, with nothing returned; an utterance returned after a
\* discard is the capture started at the latest onset and ended by the
\* frame just pulled, of length >= MinimumCapture, and longer than every
\* capture discarded before it.
C9_DiscardKeepsListening ==
    [][ /\ (CaptureEnds /\ Len(recording_frames') < minimum_capture) =>
              (pc' = "loop" /\ ~recording' /\ result' = None)
        /\ (HasDiscard(log) /\ ~recording /\ pc = "loop") =>
              (pc' = "done" <=> pos = Len(stream))
        /\ (HasDiscard(log) /\ pc = "loop" /\ pc' = "done" /\ ~result'.none) =>
              /\ Len(result'.frames) >= minimum_capture
              /\ result'.frames = recording_frames'
              /\ onset_index \in Range(result'.frames)
              /\ result'.frames[Len(result'.frames)] = pos
              /\ \A k \in 1..Len(log) :
                     log[k].ev = "discard" => log[k].n < Len(result'.frames) ]_vars

C9_Witness ==
    /\ pc = "done"
    /\ ~result.none
    /\ HasDiscard(log)

(* ------------------------------ C10 ------------------------------------- *)
\* C10: a call that ended while Recording (the source ran out before the
\* timeout was exceeded) returned no utterance, whatever had been captured;
\* a result is either no utterance or a capture of length >= MinimumCapture;
\* and on every (finite) stream the call ends.
C10_ExhaustionNoPartial ==
    /\ []((pc = "done" /\ recording) => result = None)
    /\ []((pc = "done" /\ ~result.none) =>
              (~recording /\ Len(result.frames) >= minimum_capture))
    /\ <>(pc = "done")

C10_Witness ==
    /\ pc = "done"
    /\ recording
    /\ minimum_capture >= 1
    /\ Len(recording_frames) >= minimum_capture
    /\ result = None

(* ------------------------------ C11 ------------------------------------- *)
\* C11: an engine whose frame-count timeout is zero or negative is rejected
\* at construction: no frame is ever processed with Timeout <= 0.
C11_NonPositiveTimeoutRejected ==
    pos >= 1 => timeout >= 1

(* ------------------------------ C12 ------------------------------------- *)
\* C12: after every frame, in either state, the pre-roll buffer holds exactly
\* the most recent min(Timeout, n) frames of the n frames pulled so far, in
\* arrival order, and never more than Timeout frames.
C12_PreRollBuffer ==
    /\ Len(frames) <= timeout
    /\ frames = Span(pos - Min(timeout, pos), pos - 1)

(* ------------------------------ C13 ------------------------------------- *)
\* C13: whenever the engine is Recording after a frame has been processed,
\* 0 <= len(frames) - last_voice_index <= Timeout and this difference is the
\* number of consecutive non-voice frames pulled since the last voiced one;
\* the first frame at which the difference would exceed Timeout moves the
\* state to Idle.
C13_SilenceCounter ==
    [][ pos' = pos + 1 =>
          LET d == Len(recording_frames') - last_voice_frame'
          IN  /\ recording' =>
                    (0 <= d /\ d <= timeout /\ d = SilentRun')
              /\ (recording /\ d > timeout) => ~recording' ]_vars

(* ------------------------------ C14 ------------------------------------- *)
\* C14: every frame pulled gives rise to exactly one call of the classifier,
\* made after the frame was pushed into the pre-roll buffer, and the flag
\* passed is the state held before the frame is processed: false on the
\* onset frame and on the first frame after a capture has ended, true on
\* every frame appended to a capture.
C14_ClassifierCalls ==
    [][ pos' = pos + 1 =>
          LET c == calls'[pos']
          IN  /\ Len(calls) = pos
              /\ calls' = Append(calls, c)
              /\ c.frame = pos
              /\ c.buffered
              /\ c.recording = recording
              /\ ((~recording) /\ recording') => ~c.recording
              /\ (pos >= 1 /\ calls[pos].recording /\ ~recording) => ~c.recording
              /\ c.recording => recording_frames' = Append(recording_frames, pos)
              /\ (~c.recording) =>
                     (recording_frames' = recording_frames \/ onset_index' = pos) ]_vars

\* a capture was discarded and the frame after it was classified with the
\* flag false, the frame that ended it with the flag true
C14_Witness ==
    /\ HasDiscard(log)
    /\ \E k \in 1..(pos - 1) :
           /\ calls[k].recording
           /\ ~calls[k + 1].recording
           /\ calls[k + 1].frame = k

(* ------------------------------ C15 ------------------------------------- *)
\* C15: no maximum length: a frame processed while Recording that leaves the
\* run of non-voice frames since the last voiced frame at Timeout or less
\* keeps the capture open, returns nothing and makes the capture one frame
\* longer, whatever its length already is.
C15_NoMaximumLength ==
    [][ (recording /\ pos' = pos + 1 /\ SilentRun' <= timeout) =>
          /\ recording'
          /\ pc' = "loop"
          /\ result' = None
          /\ Len(recording_frames') = Len(recording_frames) + 1
          /\ log' = log ]_vars

\* a capture still open at the end of the stream, longer than the minimum
\* plus the padding, with the gap at its largest
C15_Witness ==
    /\ recording
    /\ timeout >= 1
    /\ SilentRun = timeout
    /\ pos = Len(stream)
    /\ Len(recording_frames) = pos
    /\ Len(recording_frames) > minimum_capture + timeout + 1

(* ------------------------------ C16 ------------------------------------- *)
Abs(x) == IF x < 0 THEN 0 - x ELSE x

\* n is the integer nearest to num / den (den > 0), the even one on a tie
IsRounded(n, num, den) ==
    /\ 2 * Abs(n * den - num) <= den
    /\ (2 * Abs(n * den - num) = den) => n % 2 = 0

C17_ContiguousRun ==
    (pc = "done" /\ ~result.none) =>
        LET u == result.frames
        IN  /\ Len(u) >= 1
            /\ u = Span(u[1], u[Len(u)])
            /\ u[1] >= 0
            /\ u[Len(u)] = pos - 1
            /\ Cardinality({k \in 1..Len(u) : u[k] = onset_index}) = 1

(* ------------------------------ C18 ------------------------------------- *)
\* C18: an utterance returned has at least MinimumCapture frames, holds a
\* frame the classifier judged voiced, and ends with exactly Timeout + 1
\* frames judged non-voice that come right after a frame judged voiced.
C18_UtteranceShape ==
    (pc = "done" /\ ~result.none) =>
        LET u == result.frames
            n == Len(u)
        IN  /\ n >= minimum_capture
            /\ \E k \in 1..n : stream[u[k] + 1]
            /\ timeout + 1 >= 0
            /\ n >= timeout + 2
            /\ \A k \in (n - timeout)..n : ~stream[u[k] + 1]
            /\ stream[u[n - timeout - 1] + 1]

TypeOK ==
    /\ timeout \in Int /\ minimum_capture \in Int
    /\ pos \in 0..Len(stream)
    /\ recording \in BOOLEAN
    /\ pc \in {"loop", "done"}
    /\ Len(frames) <= DequeMaxLen
====
